---- MODULE Spec2Model ----
(***************************************************************************)
(* gemini-mcp: bearer-token auth middleware (auth.py), credential          *)
(* resolution (utils.get_gemini_client), the tools that use it (tools.py)  *)
(* and the transport bootstrap (server.main).                              *)
(*                                                                         *)
(* Strings the code inspects character by character (the Authorization     *)
(* header, tokens, API keys) are sequences of one-character strings, so    *)
(* that str.split(), str.lower() and str.startswith() are computed.        *)
(* Strings the code only compares as a whole (paths, mode names, messages) *)
(* are TLA+ strings.  An optional value (a header that may be absent, an   *)
(* unset environment variable, a missing attribute) is a record            *)
(* [set, val].                                                             *)
(*                                                                         *)
(* The google-genai library is taken to be installed (the ImportError      *)
(* branch of get_gemini_client is not taken).                              *)
(***************************************************************************)
EXTENDS Integers, Sequences, FiniteSets, TLC

VARIABLES
    started,             \* "no" | "main" | "hosted": how the process serves
    transport,           \* args.transport of main(), "none" before main ran
    env_transport_mode,  \* os.environ["MCP_TRANSPORT_MODE"], optional string
    env_api_key,         \* os.environ["GEMINI_API_KEY"], optional char sequence
    pc,                  \* per task: position of the task
    ctx,                 \* per task: "http" (inside an HTTP request) | "plain" | "none"
    path,                \* per task: request.url.path
    auth,                \* per task: request.headers.get("Authorization")
    bearer,              \* per task: request.state.bearer_token (unset = no attribute)
    nextCalls,           \* per task: number of call_next(request) invocations
    tool,                \* per task: the tool invoked
    resolveCalls,        \* per task: number of get_gemini_client calls
    transport_mode,      \* per task: get_gemini_client's local transport_mode
    client,              \* per task: api_key the Client handle was built with
    providerCalls,       \* per task: number of generate_content calls
    response,            \* per task: the response / tool outcome
    arrivals,            \* number of tasks started so far
    env_models,          \* os.environ[GEMINI_*_MODEL] per field, optional char sequences
    cache,               \* the slot of get_config's lru_cache(maxsize=1)
    instances,           \* number of ModelConfig objects constructed so far
    got,                 \* per caller: what its last get_config / ModelConfig call gave
    args,                \* per caller: the arguments of its last ModelConfig(...) call
    current,             \* per caller: got was returned by get_config since the last clear
    preClear,            \* the instance that was cached when the cache was last cleared
    envChanged,          \* a model variable changed since the cached instance was built
    cpc,                 \* per caller: position inside a get_config call running on a thread
    pending,             \* per caller: the result its get_config body has computed
    ret,                 \* per caller: what its last accessor call returned
    tpc,                 \* per caller: position of its tool call
    targs,               \* per caller: the arguments of its tool call
    sent,                \* per caller: the generate_content request of its tool call
    reply,               \* per caller: the provider's response to it
    result               \* per caller: what the tool call returned or raised

vars == <<started, transport, env_transport_mode, env_api_key, pc, ctx, path,
          auth, bearer, nextCalls, tool, resolveCalls, transport_mode, client,
          providerCalls, response, arrivals, env_models, cache, instances, got,
          args, current, preClear, envChanged, cpc, pending, ret, tpc, targs, sent,
          reply, result>>

serverVars == <<started, transport, env_transport_mode, env_api_key, pc, ctx, path,
                auth, bearer, nextCalls, tool, resolveCalls, transport_mode, client,
                providerCalls, response, arrivals>>

configVars == <<env_models, cache, instances, got, args, current, preClear, envChanged,
                cpc, pending>>

toolVars == <<tpc, targs, sent, reply, result>>

\* ---------------------------------------------------------------- bounds
MaxArrivals == 3
MaxInstances == 3
MaxRaceBuilds == 2
MaxAccessorBuilds == 2

Tasks == {"t1", "t2"}

\* ------------------------------------------------------- optional values
UnsetSeq == [set |-> FALSE, val |-> <<>>]
SomeSeq(v) == [set |-> TRUE, val |-> v]
UnsetStr == [set |-> FALSE, val |-> ""]
SomeStr(v) == [set |-> TRUE, val |-> v]

\* os.getenv(name, default)
getenv(e, default) == IF e.set THEN e.val ELSE default

\* ------------------------------------------------------ string functions
\* whitespace characters str.split() separates on
Whitespace == {" ", "\t"}

UpperToLower ==
    [c \in {"A","B","C","D","E","F","G","H","I","J","K","L","M","N","O","P",
            "Q","R","S","T","U","V","W","X","Y","Z"} |->
        CASE c = "A" -> "a" [] c = "B" -> "b" [] c = "C" -> "c" [] c = "D" -> "d"
          [] c = "E" -> "e" [] c = "F" -> "f" [] c = "G" -> "g" [] c = "H" -> "h"
          [] c = "I" -> "i" [] c = "J" -> "j" [] c = "K" -> "k" [] c = "L" -> "l"
          [] c = "M" -> "m" [] c = "N" -> "n" [] c = "O" -> "o" [] c = "P" -> "p"
          [] c = "Q" -> "q" [] c = "R" -> "r" [] c = "S" -> "s" [] c = "T" -> "t"
          [] c = "U" -> "u" [] c = "V" -> "v" [] c = "W" -> "w" [] c = "X" -> "x"
          [] c = "Y" -> "y" [] c = "Z" -> "z"]

\* str.lower()
lower(s) ==
    [i \in 1..Len(s) |-> IF s[i] \in DOMAIN UpperToLower THEN UpperToLower[s[i]] ELSE s[i]]

\* str.startswith(prefix)
startswith(s, prefix) ==
    /\ Len(s) >= Len(prefix)
    /\ SubSeq(s, 1, Len(prefix)) = prefix

\* str.split() without arguments: the maximal runs of non-whitespace characters
RECURSIVE SplitAcc(_, _, _)
SplitAcc(s, cur, acc) ==
    IF s = <<>>
    THEN IF cur = <<>> THEN acc ELSE Append(acc, cur)
    ELSE IF Head(s) \in Whitespace
         THEN SplitAcc(Tail(s), <<>>, IF cur = <<>> THEN acc ELSE Append(acc, cur))
         ELSE SplitAcc(Tail(s), Append(cur, Head(s)), acc)

split(s) == SplitAcc(s, <<>>, <<>>)

\* ------------------------------------------------------------ auth.py
bearer_word == <<"b","e","a","r","e","r">>
AI_prefix == <<"A","I">>

DetailMissing == "Authorization header missing"
DetailMalformed == "Invalid Authorization header. Must be 'Bearer <token>'"
DetailBadToken == "Invalid token. Must be a AI Studio token"

IsExcludedPathNever(p) == FALSE

\* if request.url.path == "/"
IsExcludedPath(p) == p = "/"

HeaderMissingUnchecked(h) == FALSE

\* if not auth_header  (None or the empty string)
HeaderMissing(h) == ~h.set \/ h.val = <<>>

HeaderMalformedAtLeastTwo(parts) == Len(parts) < 2 \/ lower(parts[1]) # bearer_word

\* if len(parts) != 2 or parts[0].lower() != "bearer"
HeaderMalformed(parts) == Len(parts) # 2 \/ lower(parts[1]) # bearer_word

TokenRejectedAnyCase(parts) == ~startswith(lower(parts[2]), lower(AI_prefix))

\* if not parts[1].startswith("AI")
TokenRejected(parts) == ~startswith(parts[2], AI_prefix)

ExtractTokenLowered(parts) == lower(parts[2])

\* token = parts[1]
ExtractToken(parts) == parts[2]

JSONResponse(status, detail) == [status |-> status, src |-> "gate", detail |-> detail]
NoResponse == [status |-> 0, src |-> "none", detail |-> ""]

dispatch_no_return(p, h) ==
    IF IsExcludedPath(p)
    THEN [forward |-> TRUE, token |-> UnsetSeq, resp |-> NoResponse]
    ELSE IF HeaderMissing(h)
    THEN [forward |-> FALSE, token |-> UnsetSeq, resp |-> NoResponse]
    ELSE IF HeaderMalformed(split(h.val))
    THEN [forward |-> FALSE, token |-> UnsetSeq, resp |-> JSONResponse(401, DetailMalformed)]
    ELSE IF TokenRejected(split(h.val))
    THEN [forward |-> FALSE, token |-> UnsetSeq, resp |-> JSONResponse(401, DetailBadToken)]
    ELSE [forward |-> TRUE, token |-> SomeSeq(ExtractToken(split(h.val))), resp |-> NoResponse]

\* BearerTokenAuthMiddleware.dispatch up to its await of call_next:
\* forward tells whether call_next is invoked, token what is stored in
\* request.state.bearer_token first, resp the response returned otherwise.
dispatch(p, h) ==
    IF IsExcludedPath(p)
    THEN [forward |-> TRUE, token |-> UnsetSeq, resp |-> NoResponse]
    ELSE IF HeaderMissing(h)
    THEN [forward |-> FALSE, token |-> UnsetSeq, resp |-> JSONResponse(401, DetailMissing)]
    ELSE IF HeaderMalformed(split(h.val))
    THEN [forward |-> FALSE, token |-> UnsetSeq, resp |-> JSONResponse(401, DetailMalformed)]
    ELSE IF TokenRejected(split(h.val))
    THEN [forward |-> FALSE, token |-> UnsetSeq, resp |-> JSONResponse(401, DetailBadToken)]
    ELSE [forward |-> TRUE, token |-> SomeSeq(ExtractToken(split(h.val))), resp |-> NoResponse]

\* -------------------------------------------- utils.get_gemini_client
ErrStdioKey == "Authentication failed. GEMINI_API_KEY not found for stdio mode."
ErrNoRequest == "Tool must be called via an HTTP request for streamable-http mode."
ErrNoToken == "Authentication failed in streamable-http mode. Bearer token not found."
ErrInvalidMode(m) == "Invalid MCP_TRANSPORT_MODE: " \o m

Raise(msg) == [ok |-> FALSE, api_key |-> <<>>, err |-> msg]
Client(k) == [ok |-> TRUE, api_key |-> k, err |-> ""]

DefaultTransportModeStdio == "stdio"

\* the default of os.getenv("MCP_TRANSPORT_MODE", "streamable-http")
DefaultTransportMode == "streamable-http"

ResolveStdioNoneOnly(key) ==
    IF ~key.set THEN Raise(ErrStdioKey) ELSE Client(key.val)

\* stdio branch: api_key_to_use = os.getenv("GEMINI_API_KEY")
ResolveStdio(key) ==
    IF ~key.set \/ key.val = <<>> THEN Raise(ErrStdioKey) ELSE Client(key.val)

ResolveHttpOneError(inRequest, tok) ==
    IF ~inRequest \/ ~tok.set \/ tok.val = <<>> THEN Raise(ErrNoToken)
    ELSE Client(tok.val)

\* streamable-http branch: get_http_request() raises RuntimeError outside a
\* request; getattr(request.state, "bearer_token", None)
ResolveHttp(inRequest, tok) ==
    IF ~inRequest THEN Raise(ErrNoRequest)
    ELSE IF ~tok.set \/ tok.val = <<>> THEN Raise(ErrNoToken)
    ELSE Client(tok.val)

get_gemini_client_stdio_fallback(modeEnv, key, inRequest, tok) ==
    LET mode == getenv(modeEnv, DefaultTransportMode) IN
    IF mode = "streamable-http" THEN ResolveHttp(inRequest, tok)
    ELSE ResolveStdio(key)

get_gemini_client_key_fallback(modeEnv, key, inRequest, tok) ==
    LET mode == getenv(modeEnv, DefaultTransportMode) IN
    IF mode = "stdio" THEN ResolveStdio(key)
    ELSE IF mode = "streamable-http"
    THEN IF ResolveHttp(inRequest, tok).ok \/ ~key.set \/ key.val = <<>>
         THEN ResolveHttp(inRequest, tok) ELSE Client(key.val)
    ELSE Raise(ErrInvalidMode(mode))

get_gemini_client(modeEnv, key, inRequest, tok) ==
    LET mode == getenv(modeEnv, DefaultTransportMode) IN
    IF mode = "stdio" THEN ResolveStdio(key)
    ELSE IF mode = "streamable-http" THEN ResolveHttp(inRequest, tok)
    ELSE Raise(ErrInvalidMode(mode))

\* transport_mode of a task that has not called get_gemini_client
NotRead == "not read"

\* transport_mode = os.getenv("MCP_TRANSPORT_MODE", "streamable-http")
ReadTransportMode(modeEnv) == getenv(modeEnv, DefaultTransportMode)

SetModeFlagHttpOnly(old, arg) == IF arg = "streamable-http" THEN SomeStr(arg) ELSE old

\* main: os.environ["MCP_TRANSPORT_MODE"] = ..., in either branch
SetModeFlag(old, arg) == SomeStr(arg)

RunToolRetry(r) ==
    IF r.ok
    THEN [resolved |-> 1, called |-> 1, raised |-> FALSE, err |-> ""]
    ELSE [resolved |-> 2, called |-> 0, raised |-> TRUE, err |-> r.err]

\* the body of web_search / use_gemini around the resolver, r being the outcome
\* of get_gemini_client: one call of it, no try/except, then one provider call
RunTool(r) ==
    IF r.ok
    THEN [resolved |-> 1, called |-> 1, raised |-> FALSE, err |-> ""]
    ELSE [resolved |-> 1, called |-> 0, raised |-> TRUE, err |-> r.err]

BindClientCached(c, t, k) ==
    [c EXCEPT ![t] = IF \E u \in DOMAIN c : c[u].set
                     THEN c[CHOOSE u \in DOMAIN c : c[u].set]
                     ELSE SomeSeq(k)]

\* genai_client = Client(api_key=api_key_to_use); return genai_client:
\* a new handle for the caller, built from this call's credential
BindClient(c, t, k) == [c EXCEPT ![t] = SomeSeq(k)]

StoreTokenShared(b, t, tok) == [u \in DOMAIN b |-> tok]

StoreTokenDropped(b, t, tok) == b

\* request.state.bearer_token = token: the state object belongs to one request
StoreToken(b, t, tok) == [b EXCEPT ![t] = tok]

\* ---------------------------------------------------------------- inputs
W_Bearer == <<"B","e","a","r","e","r">>
W_BEARER == <<"B","E","A","R","E","R">>
W_Basic == <<"B","a","s","i","c">>

T_AIa == <<"A","I","a">>
T_AIb == <<"A","I","b">>
T_abc123 == <<"a","b","c","1","2","3">>
T_aIa == <<"a","I","a">>

Schemes == {W_Bearer, W_BEARER, W_Basic}
Tokens == {T_AIa, T_AIb, T_abc123, T_aIa}
\* the two-word headers, and the shapes that are not two words (empty, blank, one
\* word, no separator, three words) or are two words around other whitespace
HeaderValues ==
    {s \o <<" ">> \o tok : s \in Schemes, tok \in Tokens}
    \cup {<<>>, <<" ">>, W_Bearer, W_Bearer \o T_AIa,
          W_Bearer \o <<" ">> \o T_AIa \o <<" ">> \o T_AIb,
          <<" ">> \o W_Bearer \o <<"\t", " ">> \o T_AIb \o <<" ">>}

RequestHeaders == {UnsetSeq} \cup {SomeSeq(h) : h \in HeaderValues}

\* without the middleware the header is never read
HostedHeaders == {UnsetSeq, SomeSeq(W_Bearer \o <<" ">> \o T_AIa)}

Paths == {"/", "/mcp"}

K_XYZ == <<"X","Y","Z">>
EnvKeys == {UnsetSeq, SomeSeq(<<>>), SomeSeq(K_XYZ)}

\* MCP_TRANSPORT_MODE as the process inherits it
InheritedModes ==
    {UnsetStr, SomeStr("stdio"), SomeStr("streamable-http"), SomeStr("sse"), SomeStr("")}

\* argparse choices of --transport
TransportChoices == {"stdio", "streamable-http"}

ToolNames == {"web_search", "use_gemini"}

\* ------------------------------------------------------------- responses
LandingResponse == [status |-> 200, src |-> "landing", detail |-> ""]
ToolError(msg) == [status |-> 200, src |-> "tool_error", detail |-> msg]
ToolResult == [status |-> 200, src |-> "tool_result", detail |-> "text"]
ErrProvider == "provider call failed"


\* ------------------------------------------------------------ config.py
gemini_prefix == <<"g","e","m","i","n","i","-">>

Fields == {"web_search_model", "default_model", "advanced_model"}

\* Field(default=...) of ModelConfig, the same literals get_config passes
DefaultWebSearchModel == <<"g","e","m","i","n","i","-","f","l","a","s","h","-","l","a","t","e","s","t">>
DefaultDefaultModel == <<"g","e","m","i","n","i","-","f","l","a","s","h","-","l","i","t","e","-","l","a","t","e","s","t">>
DefaultAdvancedModel == <<"g","e","m","i","n","i","-","2",".","5","-","p","r","o">>

Defaults ==
    [web_search_model |-> DefaultWebSearchModel,
     default_model |-> DefaultDefaultModel,
     advanced_model |-> DefaultAdvancedModel]

\* validate_web_search_model: raises unless v.startswith("gemini-")
validate_web_search_model(v) == startswith(v, gemini_prefix)

validate_default_model_no_dash(v) == startswith(v, <<"g","e","m","i","n","i">>)

\* validate_default_model
validate_default_model(v) == startswith(v, gemini_prefix)

\* validate_advanced_model
validate_advanced_model(v) == startswith(v, gemini_prefix)

NoFields == [web_search_model |-> <<>>, default_model |-> <<>>, advanced_model |-> <<>>]

\* ModelConfig(web_search_model=w, default_model=d, advanced_model=a), each
\* argument optional.  A given argument is validated, an omitted one takes
\* the default; any failing validator fails the construction.
ModelConfig(w, d, a) ==
    IF /\ w.set => validate_web_search_model(w.val)
       /\ d.set => validate_default_model(d.val)
       /\ a.set => validate_advanced_model(a.val)
    THEN [ok |-> TRUE,
          fields |-> [web_search_model |-> getenv(w, DefaultWebSearchModel),
                      default_model |-> getenv(d, DefaultDefaultModel),
                      advanced_model |-> getenv(a, DefaultAdvancedModel)]]
    ELSE [ok |-> FALSE, fields |-> NoFields]

get_env_with_default_ignoring_env(e, default) == default

\* _get_env_with_default(env_var, default)
get_env_with_default(e, default) == getenv(e, default)

load_config_per_field(env) ==
    [ok |-> TRUE,
     fields |-> [f \in Fields |->
                    IF env[f].set /\ startswith(env[f].val, gemini_prefix)
                    THEN env[f].val ELSE Defaults[f]]]

load_config_no_fallback(env) ==
    ModelConfig(SomeSeq(get_env_with_default(env.web_search_model, DefaultWebSearchModel)),
                SomeSeq(get_env_with_default(env.default_model, DefaultDefaultModel)),
                SomeSeq(get_env_with_default(env.advanced_model, DefaultAdvancedModel)))

\* the body of get_config (what runs on a cache miss): try ModelConfig(...) on
\* the three environment values, except Exception: return ModelConfig()
load_config(env) ==
    LET tried ==
          ModelConfig(
            SomeSeq(get_env_with_default(env.web_search_model, DefaultWebSearchModel)),
            SomeSeq(get_env_with_default(env.default_model, DefaultDefaultModel)),
            SomeSeq(get_env_with_default(env.advanced_model, DefaultAdvancedModel)))
    IN  IF tried.ok THEN tried ELSE ModelConfig(UnsetSeq, UnsetSeq, UnsetSeq)

\* a ModelConfig object: its identity and its three fields
NoInstance == [id |-> 0, fields |-> NoFields]

NewInstanceInterned(n, fields) == [id |-> 1, fields |-> fields]

\* the n-th object constructed so far gets a construction of its own
NewInstance(n, fields) == [id |-> n + 1, fields |-> fields]

NoCache == [set |-> FALSE, val |-> NoInstance]

CacheStoreNothing(inst) == NoCache

\* @lru_cache(maxsize=1): the result of a miss is stored
CacheStore(inst) == [set |-> TRUE, val |-> inst]

cache_clear_kept(c) == c

\* get_config.cache_clear()
cache_clear(c) == NoCache

NoResult == [via |-> "none", ok |-> FALSE, cfg |-> NoInstance]
NoArgs == [web_search_model |-> UnsetSeq, default_model |-> UnsetSeq,
           advanced_model |-> UnsetSeq]

Callers == {"r1", "r2"}

\* values of the three model variables: unset, valid overrides, and one
\* invalid value each
M_25pro == <<"g","e","m","i","n","i","-","2",".","5","-","p","r","o">>
M_25flash == <<"g","e","m","i","n","i","-","2",".","5","-","f","l","a","s","h">>
M_25flashlite == <<"g","e","m","i","n","i","-","2",".","5","-","f","l","a","s","h","-","l","i","t","e">>
M_CapitalG == <<"G","e","m","i","n","i","-","f","l","a","s","h","-","l","a","t","e","s","t">>
M_gemini == <<"g","e","m","i","n","i">>

ModelEnvValues ==
    [web_search_model |-> {UnsetSeq, SomeSeq(M_25flash), SomeSeq(M_CapitalG)},
     default_model |-> {UnsetSeq, SomeSeq(M_25pro), SomeSeq(<<>>)},
     advanced_model |-> {UnsetSeq, SomeSeq(M_25flashlite)}]

\* arguments of a direct ModelConfig(...) call: omitted, valid, and the invalid
\* shapes
CtorValues ==
    [web_search_model |-> {UnsetSeq, SomeSeq(M_25flash), SomeSeq(M_CapitalG)},
     default_model |-> {UnsetSeq, SomeSeq(M_gemini), SomeSeq(<<>>)},
     advanced_model |-> {UnsetSeq, SomeSeq(M_25flashlite)}]

\* the config module right after import, no model variable set
ConfigIdle ==
    /\ env_models = [f \in Fields |-> UnsetSeq]
    /\ cache = NoCache
    /\ instances = 0
    /\ got = [r \in Callers |-> NoResult]
    /\ args = [r \in Callers |-> NoArgs]
    /\ current = [r \in Callers |-> FALSE]
    /\ preClear = NoCache
    /\ envChanged = FALSE
    /\ cpc = [r \in Callers |-> "idle"]
    /\ pending = [r \in Callers |-> NoInstance]

\* ----------------------------------------- config.py, the accessors
\* an accessor has not been called
NoReturn == [via |-> "none", ok |-> FALSE, val |-> <<>>]

\* get_model_for_web_search(), get_default_model(), get_advanced_model(),
\* get_all_models(), each applied to the instance get_config() returned
get_model_for_web_search(config) == config.fields.web_search_model
get_default_model(config) == config.fields.default_model
get_advanced_model(config) == config.fields.advanced_model
get_all_models(config) ==
    <<config.fields.web_search_model, config.fields.default_model,
      config.fields.advanced_model>>

Accessors ==
    {"get_model_for_web_search", "get_default_model", "get_advanced_model",
     "get_all_models"}

\* the accessor named a, called when get_config() gave res: an exception of
\* get_config would propagate through it
accessor(a, res) ==
    IF ~res.ok THEN [via |-> a, ok |-> FALSE, val |-> <<>>]
    ELSE [via |-> a, ok |-> TRUE,
          val |-> CASE a = "get_model_for_web_search" -> get_model_for_web_search(res.cfg)
                    [] a = "get_default_model" -> get_default_model(res.cfg)
                    [] a = "get_advanced_model" -> get_advanced_model(res.cfg)
                    [] OTHER -> get_all_models(res.cfg)]

\* ------------------------------------------------------------ tools.py
\* model="gemini-2.0-flash" of web_search
WebSearchModel == <<"g","e","m","i","n","i","-","2",".","0","-","f","l","a","s","h">>

\* the Literal of use_gemini's model parameter and its default
PreviewPro == <<"g","e","m","i","n","i","-","2",".","5","-","p","r","o","-","p","r","e","v","i","e","w","-","0","6","-","0","5">>
PreviewFlash == <<"g","e","m","i","n","i","-","2",".","5","-","f","l","a","s","h","-","p","r","e","v","i","e","w","-","0","5","-","2","0">>
UseGeminiModels == {PreviewPro, PreviewFlash}
UseGeminiDefaultModel == PreviewFlash

\* web_search_prompt.format(query=query, current_date_str=current_date_str):
\* the template's text around its three fields
FormatWebSearchPrompt(query, date) ==
    <<"Conduct targeted Google Searches ... on \"", query,
      "\" ... The current date is ", date, ". ... Research Topic:\n", query, "\n">>

\* config={"temperature": 0.0, "tools": [{"google_search": {}}]}
WebSearchConfig == "temperature 0.0, tools google_search"
NoConfig == "none"

NoRequest == [n |-> 0, model |-> <<>>, contents |-> <<>>, config |-> NoConfig]

\* response.candidates[0].grounding_metadata: None, or an object that may
\* lack the attribute grounding_supports or hold None in it
NoMetadata ==
    [none |-> TRUE, has_supports |-> FALSE, grounding_supports |-> UnsetSeq,
     grounding_chunks |-> <<>>, web_search_queries |-> UnsetSeq]
Metadata(hasSupports, supports, chunks, queries) ==
    [none |-> FALSE, has_supports |-> hasSupports, grounding_supports |-> supports,
     grounding_chunks |-> chunks, web_search_queries |-> queries]

NoToolArgs ==
    [tool |-> "none", text |-> "", include_citations |-> FALSE, model |-> UnsetSeq,
     direct |-> TRUE, grounding_metadata |-> NoMetadata]

NoReply == [given |-> FALSE, text |-> "", grounding_metadata |-> NoMetadata]

NoOutcome ==
    [kind |-> "none", keys |-> {}, text |-> "", web_search_queries |-> <<>>,
     citations |-> <<>>, err |-> ""]
Raised(msg) ==
    [kind |-> "raised", keys |-> {}, text |-> "", web_search_queries |-> <<>>,
     citations |-> <<>>, err |-> msg]
TextOutput(text) ==
    [kind |-> "returned", keys |-> {"text"}, text |-> text,
     web_search_queries |-> <<>>, citations |-> <<>>, err |-> ""]
WebSearchOutput(text, queries, citations) ==
    [kind |-> "returned", keys |-> {"text", "web_search_queries", "citations"},
     text |-> text, web_search_queries |-> queries, citations |-> citations,
     err |-> ""]

\* ---- utils.process_grounding_to_structured_citations and the tool bodies
Returned(v) == [ok |-> TRUE, val |-> v, err |-> ""]
Failed(msg) == [ok |-> FALSE, val |-> <<>>, err |-> msg]

ErrNoneAttr == "AttributeError: 'NoneType' object has no attribute 'grounding_supports'"
ErrNoAttr == "AttributeError: object has no attribute 'grounding_supports'"
ErrNotIterable == "TypeError: 'NoneType' object is not iterable"
ErrIndex == "IndexError: list index out of range"

\* support.segment.start_index if support.segment.start_index else 0
StartIndex(i) == IF i.set /\ i.val # 0 THEN i.val ELSE 0

\* the sources of one support: grounding_chunks[idx].web for each of its indices
Sources(support, chunks) ==
    [j \in 1..Len(support.grounding_chunk_indices) |->
        chunks[support.grounding_chunk_indices[j] + 1]]

\* the dictionary process_grounding_to_structured_citations appends for support
Citation(support, chunks) ==
    [text |-> support.text,
     start_index |-> StartIndex(support.start_index),
     end_index |-> support.end_index,
     sources |-> Sources(support, chunks)]

\* process_grounding_to_structured_citations(grounding_metadata): the loop
\* reads grounding_metadata.grounding_supports without any check before it
process_grounding_to_structured_citations(m) ==
    IF m.none THEN Failed(ErrNoneAttr)
    ELSE IF ~m.has_supports THEN Failed(ErrNoAttr)
    ELSE IF ~m.grounding_supports.set THEN Failed(ErrNotIterable)
    ELSE IF \E i \in 1..Len(m.grounding_supports.val) :
              \E j \in 1..Len(m.grounding_supports.val[i].grounding_chunk_indices) :
                  m.grounding_supports.val[i].grounding_chunk_indices[j] >=
                      Len(m.grounding_chunks)
    THEN Failed(ErrIndex)
    ELSE Returned([i \in 1..Len(m.grounding_supports.val) |->
                      Citation(m.grounding_supports.val[i], m.grounding_chunks)])

HasGroundingMetadataUnchecked(m) == TRUE

\* if response.candidates[0].grounding_metadata:
HasGroundingMetadata(m) == ~m.none

\* if response.candidates[0].grounding_metadata.web_search_queries:
HasQueries(m) == m.web_search_queries.set /\ m.web_search_queries.val # <<>>

\* web_search from the provider's response on
web_search_result(response_, include_citations) ==
    LET m == response_.grounding_metadata
        structured_citations ==
            IF HasGroundingMetadata(m)
            THEN process_grounding_to_structured_citations(m)
            ELSE Returned(<<>>)
        web_search_queries_used ==
            IF HasGroundingMetadata(m) /\ HasQueries(m)
            THEN m.web_search_queries.val ELSE <<>>
    IN  IF ~structured_citations.ok THEN Raised(structured_citations.err)
        ELSE IF include_citations
        THEN WebSearchOutput(response_.text, web_search_queries_used,
                             structured_citations.val)
        ELSE TextOutput(response_.text)

\* the generate_content request of web_search
web_search_request(query, date) ==
    [n |-> 1, model |-> WebSearchModel,
     contents |-> FormatWebSearchPrompt(query, date), config |-> WebSearchConfig]

\* model=model of use_gemini: the argument, or the parameter's default
use_gemini_model(model) == IF model.set THEN model.val ELSE UseGeminiDefaultModel

\* the generate_content request of use_gemini
use_gemini_request(prompt, model) ==
    [n |-> 1, model |-> use_gemini_model(model), contents |-> <<prompt>>,
     config |-> NoConfig]

\* use_gemini from the provider's response on
use_gemini_result(response_) == TextOutput(response_.text)

\* ------------------------------------------------ inputs of the tools
Queries == {"test query"}
Prompts == {"test prompt"}
Dates == {"2023-01-01"}
Texts == {"Test search result"}

\* the model argument of use_gemini: omitted, the two literals, and the two
\* names older callers pass
ModelArgs ==
    {UnsetSeq, SomeSeq(PreviewPro), SomeSeq(PreviewFlash),
     SomeSeq(DefaultWebSearchModel), SomeSeq(M_25pro)}

UnsetNum == [set |-> FALSE, val |-> 0]
SomeNum(n) == [set |-> TRUE, val |-> n]

Chunk1 == [title |-> "Source 1", uri |-> "http://example.com/1"]
Chunk2 == [title |-> "Source 2", uri |-> "http://example.com/2"]
Support1 ==
    [text |-> "first", start_index |-> UnsetNum, end_index |-> 5,
     grounding_chunk_indices |-> <<0, 1>>]
Support2 ==
    [text |-> "second", start_index |-> SomeNum(6), end_index |-> 12,
     grounding_chunk_indices |-> <<1>>]

\* the grounding metadata a response may carry
Metadatas ==
    {NoMetadata,
     Metadata(FALSE, UnsetSeq, <<>>, SomeSeq(<<"query1">>)),
     Metadata(TRUE, UnsetSeq, <<>>, SomeSeq(<<"query1">>)),
     Metadata(TRUE, SomeSeq(<<>>), <<>>, UnsetSeq),
     Metadata(TRUE, SomeSeq(<<>>), <<>>, SomeSeq(<<>>)),
     Metadata(TRUE, SomeSeq(<<Support1, Support2>>), <<Chunk1, Chunk2>>,
              SomeSeq(<<"query1", "query2">>))}

\* no tool call and no accessor call is under way
ToolsIdle ==
    /\ ret = [r \in Callers |-> NoReturn]
    /\ tpc = [r \in Callers |-> "idle"]
    /\ targs = [r \in Callers |-> NoToolArgs]
    /\ sent = [r \in Callers |-> NoRequest]
    /\ reply = [r \in Callers |-> NoReply]
    /\ result = [r \in Callers |-> NoOutcome]

\* ------------------------------------------------------------------ Init
Init ==
    /\ started = "no"
    /\ transport = "none"
    /\ env_transport_mode \in InheritedModes
    /\ env_api_key \in EnvKeys
    /\ pc = [t \in Tasks |-> "idle"]
    /\ ctx = [t \in Tasks |-> "none"]
    /\ path = [t \in Tasks |-> ""]
    /\ auth = [t \in Tasks |-> UnsetSeq]
    /\ bearer = [t \in Tasks |-> UnsetSeq]
    /\ nextCalls = [t \in Tasks |-> 0]
    /\ tool = [t \in Tasks |-> "none"]
    /\ resolveCalls = [t \in Tasks |-> 0]
    /\ transport_mode = [t \in Tasks |-> NotRead]
    /\ client = [t \in Tasks |-> UnsetSeq]
    /\ providerCalls = [t \in Tasks |-> 0]
    /\ response = [t \in Tasks |-> NoResponse]
    /\ arrivals = 0
    /\ ConfigIdle
    /\ ToolsIdle

\* custom_middleware = [Middleware(BearerTokenAuthMiddleware)] only in main's
\* streamable-http branch
MiddlewareInstalled == started = "main" /\ transport = "streamable-http"

ServesHttp == MiddlewareInstalled \/ started = "hosted"

\* --------------------------------------------------------------- actions
\* server.main: parse --transport, set the mode flag, run
Main(arg) ==
    /\ UNCHANGED <<configVars, ret, toolVars>>
    /\ UNCHANGED transport_mode
    /\ started = "no"
    /\ arrivals = 0
    /\ started' = "main"
    /\ transport' = arg
    /\ env_transport_mode' = SetModeFlag(env_transport_mode, arg)
    /\ UNCHANGED <<env_api_key, pc, ctx, path, auth, bearer, nextCalls, tool,
                   resolveCalls, client, providerCalls, response, arrivals>>

\* the module-level mcp object (tools registered at import) served over HTTP
\* by a runner other than main: no middleware, the mode flag as inherited
ServeMcpObject ==
    /\ UNCHANGED <<configVars, ret, toolVars>>
    /\ UNCHANGED transport_mode
    /\ started = "no"
    /\ arrivals = 0
    /\ started' = "hosted"
    /\ UNCHANGED <<transport, env_transport_mode, env_api_key, pc, ctx, path, auth,
                   bearer, nextCalls, tool, resolveCalls, client, providerCalls,
                   response, arrivals>>

\* an HTTP request arrives; a new request has an empty state
HttpArrive(t, p, h) ==
    /\ UNCHANGED <<configVars, ret, toolVars>>
    /\ UNCHANGED transport_mode
    /\ ServesHttp
    /\ pc[t] = "idle"
    /\ arrivals < MaxArrivals
    /\ MiddlewareInstalled \/ h \in HostedHeaders
    /\ arrivals' = arrivals + 1
    /\ ctx' = [ctx EXCEPT ![t] = "http"]
    /\ path' = [path EXCEPT ![t] = p]
    /\ auth' = [auth EXCEPT ![t] = h]
    /\ pc' = [pc EXCEPT ![t] = IF MiddlewareInstalled THEN "received" ELSE "next"]
    /\ UNCHANGED <<started, transport, env_transport_mode, env_api_key, bearer,
                   nextCalls, tool, resolveCalls, client, providerCalls, response>>

\* a tool invocation outside any HTTP request: a stdio message, or a direct call
\* of the tool function
PlainArrive(t) ==
    /\ UNCHANGED <<configVars, ret, toolVars>>
    /\ UNCHANGED transport_mode
    /\ pc[t] = "idle"
    /\ arrivals < MaxArrivals
    /\ arrivals' = arrivals + 1
    /\ ctx' = [ctx EXCEPT ![t] = "plain"]
    /\ pc' = [pc EXCEPT ![t] = "next"]
    /\ UNCHANGED <<started, transport, env_transport_mode, env_api_key, path, auth,
                   bearer, nextCalls, tool, resolveCalls, client, providerCalls,
                   response>>

\* BearerTokenAuthMiddleware.dispatch, up to `await call_next(request)`
Dispatch(t) ==
    /\ UNCHANGED <<configVars, ret, toolVars>>
    /\ UNCHANGED transport_mode
    /\ MiddlewareInstalled
    /\ pc[t] = "received"
    /\ LET d == dispatch(path[t], auth[t]) IN
        IF d.forward
        THEN /\ bearer' = IF d.token.set THEN StoreToken(bearer, t, d.token) ELSE bearer
             /\ nextCalls' = [nextCalls EXCEPT ![t] = @ + 1]
             /\ pc' = [pc EXCEPT ![t] = "next"]
             /\ UNCHANGED response
        ELSE /\ response' = [response EXCEPT ![t] = d.resp]
             /\ pc' = [pc EXCEPT ![t] = "done"]
             /\ UNCHANGED <<bearer, nextCalls>>
    /\ UNCHANGED <<started, transport, env_transport_mode, env_api_key, ctx, path,
                   auth, tool, resolveCalls, client, providerCalls, arrivals>>

\* server.landing_page, the route "/"
LandingPage(t) ==
    /\ UNCHANGED <<configVars, ret, toolVars>>
    /\ UNCHANGED transport_mode
    /\ pc[t] = "next"
    /\ ctx[t] = "http"
    /\ path[t] = "/"
    /\ response' = [response EXCEPT ![t] = LandingResponse]
    /\ pc' = [pc EXCEPT ![t] = "done"]
    /\ UNCHANGED <<started, transport, env_transport_mode, env_api_key, ctx, path,
                   auth, bearer, nextCalls, tool, resolveCalls, client,
                   providerCalls, arrivals>>

\* tools.web_search / tools.use_gemini up to `await ...generate_content(...)`:
\* genai_client = await get_gemini_client(), then the provider call is issued
ToolInvoke(t, name) ==
    /\ UNCHANGED <<configVars, ret, toolVars>>
    /\ pc[t] = "next"
    /\ ctx[t] = "plain" \/ (ctx[t] = "http" /\ path[t] # "/")
    /\ tool' = [tool EXCEPT ![t] = name]
    /\ transport_mode' = [transport_mode EXCEPT ![t] = ReadTransportMode(env_transport_mode)]
    /\ LET r == get_gemini_client(env_transport_mode, env_api_key,
                                  ctx[t] = "http", bearer[t])
           run == RunTool(r) IN
        /\ resolveCalls' = [resolveCalls EXCEPT ![t] = @ + run.resolved]
        /\ providerCalls' = [providerCalls EXCEPT ![t] = @ + run.called]
        /\ IF run.raised
           THEN /\ response' = [response EXCEPT ![t] = ToolError(run.err)]
                /\ pc' = [pc EXCEPT ![t] = "done"]
                /\ UNCHANGED client
           ELSE /\ client' = BindClient(client, t, r.api_key)
                /\ pc' = [pc EXCEPT ![t] = "awaiting"]
                /\ UNCHANGED response
    /\ UNCHANGED <<started, transport, env_transport_mode, env_api_key, ctx, path,
                   auth, bearer, nextCalls, arrivals>>

\* the provider call returns (or raises) and the tool returns its record
ProviderReturn(t, succeeded) ==
    /\ UNCHANGED <<configVars, ret, toolVars>>
    /\ UNCHANGED transport_mode
    /\ pc[t] = "awaiting"
    /\ response' = [response EXCEPT ![t] =
                        IF succeeded THEN ToolResult ELSE ToolError(ErrProvider)]
    /\ pc' = [pc EXCEPT ![t] = "done"]
    /\ UNCHANGED <<started, transport, env_transport_mode, env_api_key, ctx, path,
                   auth, bearer, nextCalls, tool, resolveCalls, client,
                   providerCalls, arrivals>>

\* the response is sent; the request and its state are gone
Finish(t) ==
    /\ UNCHANGED <<configVars, ret, toolVars>>
    /\ pc[t] = "done"
    /\ pc' = [pc EXCEPT ![t] = "idle"]
    /\ ctx' = [ctx EXCEPT ![t] = "none"]
    /\ path' = [path EXCEPT ![t] = ""]
    /\ auth' = [auth EXCEPT ![t] = UnsetSeq]
    /\ bearer' = [bearer EXCEPT ![t] = UnsetSeq]
    /\ nextCalls' = [nextCalls EXCEPT ![t] = 0]
    /\ tool' = [tool EXCEPT ![t] = "none"]
    /\ resolveCalls' = [resolveCalls EXCEPT ![t] = 0]
    /\ transport_mode' = [transport_mode EXCEPT ![t] = NotRead]
    /\ client' = [client EXCEPT ![t] = UnsetSeq]
    /\ providerCalls' = [providerCalls EXCEPT ![t] = 0]
    /\ response' = [response EXCEPT ![t] = NoResponse]
    /\ UNCHANGED <<started, transport, env_transport_mode, env_api_key, arrivals>>

Next ==
    \/ \E arg \in TransportChoices : Main(arg)
    \/ ServeMcpObject
    \/ \E t \in Tasks, p \in Paths, h \in RequestHeaders : HttpArrive(t, p, h)
    \/ \E t \in Tasks : PlainArrive(t)
    \/ \E t \in Tasks : Dispatch(t)
    \/ \E t \in Tasks : LandingPage(t)
    \/ \E t \in Tasks, name \in ToolNames : ToolInvoke(t, name)
    \/ \E t \in Tasks, succeeded \in BOOLEAN : ProviderReturn(t, succeeded)
    \/ \E t \in Tasks : Finish(t)

Spec == Init /\ [][Next]_vars

\* ---- the same process on an event loop that runs every coroutine that can
\* run, with handlers and provider calls that return
\* the next step of the request of task t: the gate, then the next handler
\* up to its provider call, then the provider's return
RequestStep(t) ==
    \/ Dispatch(t)
    \/ LandingPage(t)
    \/ \E name \in ToolNames : ToolInvoke(t, name)
    \/ \E succeeded \in BOOLEAN : ProviderReturn(t, succeeded)

Fairness == \A t \in Tasks : WF_vars(RequestStep(t))

\* one header of each kind the gate tells apart: absent, empty, wrong scheme,
\* token without the AI prefix, accepted
GateHeaders ==
    {UnsetSeq, SomeSeq(<<>>), SomeSeq(W_Basic \o <<" ">> \o T_AIa),
     SomeSeq(W_Bearer \o <<" ">> \o T_abc123), SomeSeq(W_Bearer \o <<" ">> \o T_AIa)}

\* the process after main(--transport streamable-http): the middleware is
\* installed and no request has arrived
InitGate ==
    /\ started = "main"
    /\ transport = "streamable-http"
    /\ env_transport_mode = SetModeFlag(UnsetStr, "streamable-http")
    /\ env_api_key \in {UnsetSeq, SomeSeq(K_XYZ)}
    /\ pc = [t \in Tasks |-> "idle"]
    /\ ctx = [t \in Tasks |-> "none"]
    /\ path = [t \in Tasks |-> ""]
    /\ auth = [t \in Tasks |-> UnsetSeq]
    /\ bearer = [t \in Tasks |-> UnsetSeq]
    /\ nextCalls = [t \in Tasks |-> 0]
    /\ tool = [t \in Tasks |-> "none"]
    /\ resolveCalls = [t \in Tasks |-> 0]
    /\ transport_mode = [t \in Tasks |-> NotRead]
    /\ client = [t \in Tasks |-> UnsetSeq]
    /\ providerCalls = [t \in Tasks |-> 0]
    /\ response = [t \in Tasks |-> NoResponse]
    /\ arrivals = 0
    /\ ConfigIdle
    /\ ToolsIdle

NextGate ==
    \/ \E t \in Tasks, p \in Paths, h \in GateHeaders : HttpArrive(t, p, h)
    \/ \E t \in Tasks : Dispatch(t)
    \/ \E t \in Tasks : LandingPage(t)
    \/ \E t \in Tasks, name \in ToolNames : ToolInvoke(t, name)
    \/ \E t \in Tasks, succeeded \in BOOLEAN : ProviderReturn(t, succeeded)
    \/ \E t \in Tasks : Finish(t)

SpecGate == InitGate /\ [][NextGate]_vars /\ Fairness

\* ---- the same process with GEMINI_API_KEY changed while it runs
K_ABC == <<"A","B","C">>

\* os.environ["GEMINI_API_KEY"] is set to another value, or deleted, from
\* outside the code modelled here
SetApiKey(k) ==
    /\ UNCHANGED <<configVars, ret, toolVars>>
    /\ k # env_api_key
    /\ env_api_key' = k
    /\ UNCHANGED <<started, transport, env_transport_mode, pc, ctx, path, auth,
                   bearer, nextCalls, tool, resolveCalls, transport_mode, client,
                   providerCalls, response, arrivals>>

NextEnv ==
    \/ Next
    \/ \E k \in EnvKeys \cup {SomeSeq(K_ABC)} : SetApiKey(k)

SpecEnv == Init /\ [][NextEnv]_vars

\* ---- the config module used on its own (config.py; its callers are the tests)
ServerIdle ==
    /\ started = "no"
    /\ transport = "none"
    /\ env_transport_mode = UnsetStr
    /\ env_api_key = UnsetSeq
    /\ pc = [t \in Tasks |-> "idle"]
    /\ ctx = [t \in Tasks |-> "none"]
    /\ path = [t \in Tasks |-> ""]
    /\ auth = [t \in Tasks |-> UnsetSeq]
    /\ bearer = [t \in Tasks |-> UnsetSeq]
    /\ nextCalls = [t \in Tasks |-> 0]
    /\ tool = [t \in Tasks |-> "none"]
    /\ resolveCalls = [t \in Tasks |-> 0]
    /\ transport_mode = [t \in Tasks |-> NotRead]
    /\ client = [t \in Tasks |-> UnsetSeq]
    /\ providerCalls = [t \in Tasks |-> 0]
    /\ response = [t \in Tasks |-> NoResponse]
    /\ arrivals = 0

\* the three model variables as the process inherits them, the cache empty
InitConfig ==
    /\ ServerIdle
    /\ env_models \in [Fields -> UNION {ModelEnvValues[f] : f \in Fields}]
    /\ \A f \in Fields : env_models[f] \in ModelEnvValues[f]
    /\ cache = NoCache
    /\ instances = 0
    /\ got = [r \in Callers |-> NoResult]
    /\ args = [r \in Callers |-> NoArgs]
    /\ current = [r \in Callers |-> FALSE]
    /\ preClear = NoCache
    /\ envChanged = FALSE
    /\ cpc = [r \in Callers |-> "idle"]
    /\ pending = [r \in Callers |-> NoInstance]
    /\ ToolsIdle

\* get_config(): the lru_cache wrapper returns the cached object on a hit and
\* runs the body and stores its result on a miss.  The call has no
\* suspension point, so it is one step.
GetConfigCall(r) ==
    /\ cache.set \/ instances < MaxInstances
    /\ IF cache.set
       THEN /\ got' = [got EXCEPT ![r] = [via |-> "get_config", ok |-> TRUE, cfg |-> cache.val]]
            /\ UNCHANGED <<cache, instances, envChanged>>
       ELSE LET res == load_config(env_models)
                inst == NewInstance(instances, res.fields) IN
            IF res.ok
            THEN /\ got' = [got EXCEPT ![r] = [via |-> "get_config", ok |-> TRUE, cfg |-> inst]]
                 /\ cache' = CacheStore(inst)
                 /\ instances' = instances + 1
                 /\ envChanged' = FALSE
            ELSE /\ got' = [got EXCEPT ![r] = [via |-> "get_config", ok |-> FALSE, cfg |-> NoInstance]]
                 /\ UNCHANGED <<cache, instances, envChanged>>
    /\ current' = [current EXCEPT ![r] = TRUE]
    /\ UNCHANGED <<env_models, args, preClear, cpc, pending>>
    /\ UNCHANGED <<serverVars, toolVars>>

\* get_config() called by itself
GetConfig(r) == GetConfigCall(r) /\ UNCHANGED ret

\* clear_config_cache()
ClearConfigCache ==
    /\ cache' = cache_clear(cache)
    /\ preClear' = IF cache.set THEN cache ELSE preClear
    /\ current' = [r \in Callers |-> FALSE]
    /\ UNCHANGED <<env_models, instances, got, args, envChanged, cpc, pending>>
    /\ UNCHANGED <<serverVars, ret, toolVars>>

\* a model variable is set to another value, or deleted, from outside
SetModelEnv(f, v) ==
    /\ v \in ModelEnvValues[f]
    /\ v # env_models[f]
    /\ env_models' = [env_models EXCEPT ![f] = v]
    /\ envChanged' = TRUE
    /\ UNCHANGED <<cache, instances, got, args, current, preClear, cpc, pending>>
    /\ UNCHANGED <<serverVars, ret, toolVars>>

NextConfig ==
    \/ \E r \in Callers : GetConfig(r)
    \/ ClearConfigCache
    \/ \E f \in Fields : \E v \in ModelEnvValues[f] : SetModelEnv(f, v)

SpecConfig == InitConfig /\ [][NextConfig]_vars

\* ---- get_config called from several threads: the steps of the lru_cache
\* wrapper of one call interleave with other calls, with cache_clear and with
\* changes of the environment
CacheLookup(r) ==
    /\ cpc[r] = "idle"
    /\ IF cache.set
       THEN /\ got' = [got EXCEPT ![r] = [via |-> "get_config", ok |-> TRUE, cfg |-> cache.val]]
            /\ UNCHANGED cpc
       ELSE /\ instances + Cardinality({q \in Callers : cpc[q] = "miss"}) < MaxRaceBuilds
            /\ cpc' = [cpc EXCEPT ![r] = "miss"]
            /\ UNCHANGED got
    /\ UNCHANGED <<env_models, cache, instances, args, current, preClear, envChanged,
                   pending>>
    /\ UNCHANGED <<serverVars, ret, toolVars>>

\* the wrapper calls the body of get_config outside its lock
RunBody(r) ==
    /\ cpc[r] = "miss"
    /\ LET res == load_config(env_models) IN
        IF res.ok
        THEN /\ pending' = [pending EXCEPT ![r] = NewInstance(instances, res.fields)]
             /\ instances' = instances + 1
             /\ cpc' = [cpc EXCEPT ![r] = "built"]
             /\ UNCHANGED got
        ELSE /\ got' = [got EXCEPT ![r] = [via |-> "get_config", ok |-> FALSE, cfg |-> NoInstance]]
             /\ cpc' = [cpc EXCEPT ![r] = "idle"]
             /\ UNCHANGED <<pending, instances>>
    /\ UNCHANGED <<env_models, cache, args, current, preClear, envChanged>>
    /\ UNCHANGED <<serverVars, ret, toolVars>>

\* the wrapper stores the result unless the key was added meanwhile, and
\* returns the result it computed
CacheInsert(r) ==
    /\ cpc[r] = "built"
    /\ cache' = IF cache.set THEN cache ELSE CacheStore(pending[r])
    /\ got' = [got EXCEPT ![r] = [via |-> "get_config", ok |-> TRUE, cfg |-> pending[r]]]
    /\ cpc' = [cpc EXCEPT ![r] = "idle"]
    /\ pending' = [pending EXCEPT ![r] = NoInstance]
    /\ UNCHANGED <<env_models, instances, args, current, preClear, envChanged>>
    /\ UNCHANGED <<serverVars, ret, toolVars>>

\* clear_config_cache() on a thread of its own, at any point of the other calls
CacheClear ==
    /\ cache' = cache_clear(cache)
    /\ UNCHANGED <<env_models, instances, got, args, current, preClear, envChanged,
                   cpc, pending>>
    /\ UNCHANGED <<serverVars, ret, toolVars>>

NextConfigRace ==
    \/ \E r \in Callers : CacheLookup(r)
    \/ \E r \in Callers : RunBody(r)
    \/ \E r \in Callers : CacheInsert(r)
    \/ CacheClear
    \/ \E f \in Fields : \E v \in ModelEnvValues[f] : SetModelEnv(f, v)

SpecConfigRace == InitConfig /\ [][NextConfigRace]_vars

\* ---- the accessors next to get_config, under each environment the process
\* may have inherited
\* config = get_config(); return config.<field> (or the dictionary of the three)
CallAccessor(r, a) ==
    /\ cache.set \/ instances < MaxAccessorBuilds
    /\ GetConfigCall(r)
    /\ ret' = [ret EXCEPT ![r] = accessor(a, got'[r])]

NextAccessors ==
    \/ \E r \in Callers : \E a \in Accessors : CallAccessor(r, a)
    \/ CacheClear

SpecAccessors == InitConfig /\ [][NextAccessors]_vars

\* ---- ModelConfig(...) called directly with arguments of the caller's choice
Construct(r, w, d, a) ==
    /\ instances < MaxInstances
    /\ args' = [args EXCEPT ![r] =
                   [web_search_model |-> w, default_model |-> d, advanced_model |-> a]]
    /\ LET res == ModelConfig(w, d, a) IN
        IF res.ok
        THEN /\ got' = [got EXCEPT ![r] =
                          [via |-> "ModelConfig", ok |-> TRUE,
                           cfg |-> NewInstance(instances, res.fields)]]
             /\ instances' = instances + 1
        ELSE /\ got' = [got EXCEPT ![r] =
                          [via |-> "ModelConfig", ok |-> FALSE, cfg |-> NoInstance]]
             /\ UNCHANGED instances
    /\ UNCHANGED <<env_models, cache, current, preClear, envChanged, cpc, pending>>
    /\ UNCHANGED <<serverVars, ret, toolVars>>

NextModelConfig ==
    \E r \in Callers :
        \E w \in CtorValues.web_search_model, d \in CtorValues.default_model,
           a \in CtorValues.advanced_model :
            Construct(r, w, d, a)

SpecModelConfig == Init /\ [][NextModelConfig]_vars

\* ---- the tools called in a process that main started in stdio mode
ErrValidation == "ValidationError: model is not one of the literals"

InitTools ==
    /\ started = "main"
    /\ transport = "stdio"
    /\ env_transport_mode = SomeStr("stdio")
    /\ env_api_key \in {UnsetSeq, SomeSeq(K_XYZ)}
    /\ pc = [t \in Tasks |-> "idle"]
    /\ ctx = [t \in Tasks |-> "none"]
    /\ path = [t \in Tasks |-> ""]
    /\ auth = [t \in Tasks |-> UnsetSeq]
    /\ bearer = [t \in Tasks |-> UnsetSeq]
    /\ nextCalls = [t \in Tasks |-> 0]
    /\ tool = [t \in Tasks |-> "none"]
    /\ resolveCalls = [t \in Tasks |-> 0]
    /\ transport_mode = [t \in Tasks |-> NotRead]
    /\ client = [t \in Tasks |-> UnsetSeq]
    /\ providerCalls = [t \in Tasks |-> 0]
    /\ response = [t \in Tasks |-> NoResponse]
    /\ arrivals = 0
    /\ env_models \in [Fields -> UNION {ModelEnvValues[f] : f \in Fields}]
    /\ \A f \in Fields : env_models[f] \in ModelEnvValues[f]
    /\ cache = NoCache
    /\ instances = 0
    /\ got = [r \in Callers |-> NoResult]
    /\ args = [r \in Callers |-> NoArgs]
    /\ current = [r \in Callers |-> FALSE]
    /\ preClear = NoCache
    /\ envChanged = FALSE
    /\ cpc = [r \in Callers |-> "idle"]
    /\ pending = [r \in Callers |-> NoInstance]
    /\ ToolsIdle

\* web_search(query, include_citations) up to its await of generate_content
WebSearch(r, query, include_citations, date) ==
    /\ tpc[r] = "idle"
    /\ targs' = [targs EXCEPT ![r] =
                    [tool |-> "web_search", text |-> query,
                     include_citations |-> include_citations, model |-> UnsetSeq,
                     direct |-> TRUE, grounding_metadata |-> NoMetadata]]
    /\ LET genai_client == get_gemini_client(env_transport_mode, env_api_key,
                                             FALSE, UnsetSeq) IN
        IF genai_client.ok
        THEN /\ sent' = [sent EXCEPT ![r] = web_search_request(query, date)]
             /\ tpc' = [tpc EXCEPT ![r] = "awaiting"]
             /\ UNCHANGED result
        ELSE /\ result' = [result EXCEPT ![r] = Raised(genai_client.err)]
             /\ tpc' = [tpc EXCEPT ![r] = "done"]
             /\ UNCHANGED sent
    /\ UNCHANGED <<reply, ret>>
    /\ UNCHANGED <<serverVars, configVars>>

\* use_gemini(prompt, model) up to its await of generate_content; a call
\* through the MCP layer validates model against the Literal first, a direct
\* call of the function does not
UseGemini(r, prompt, model, direct) ==
    /\ tpc[r] = "idle"
    /\ targs' = [targs EXCEPT ![r] =
                    [tool |-> "use_gemini", text |-> prompt,
                     include_citations |-> FALSE, model |-> model,
                     direct |-> direct, grounding_metadata |-> NoMetadata]]
    /\ LET genai_client == get_gemini_client(env_transport_mode, env_api_key,
                                             FALSE, UnsetSeq) IN
        IF ~direct /\ model.set /\ model.val \notin UseGeminiModels
        THEN /\ result' = [result EXCEPT ![r] = Raised(ErrValidation)]
             /\ tpc' = [tpc EXCEPT ![r] = "done"]
             /\ UNCHANGED sent
        ELSE IF genai_client.ok
        THEN /\ sent' = [sent EXCEPT ![r] = use_gemini_request(prompt, model)]
             /\ tpc' = [tpc EXCEPT ![r] = "awaiting"]
             /\ UNCHANGED result
        ELSE /\ result' = [result EXCEPT ![r] = Raised(genai_client.err)]
             /\ tpc' = [tpc EXCEPT ![r] = "done"]
             /\ UNCHANGED sent
    /\ UNCHANGED <<reply, ret>>
    /\ UNCHANGED <<serverVars, configVars>>

\* generate_content returns a response with a first candidate; the tool runs
\* to its return
ProviderReply(r, text, m) ==
    /\ tpc[r] = "awaiting"
    /\ targs[r].tool = "use_gemini" => m = NoMetadata
    /\ reply' = [reply EXCEPT ![r] =
                    [given |-> TRUE, text |-> text, grounding_metadata |-> m]]
    /\ result' = [result EXCEPT ![r] =
                     IF targs[r].tool = "web_search"
                     THEN web_search_result(reply'[r], targs[r].include_citations)
                     ELSE use_gemini_result(reply'[r])]
    /\ tpc' = [tpc EXCEPT ![r] = "done"]
    /\ UNCHANGED <<targs, sent, ret>>
    /\ UNCHANGED <<serverVars, configVars>>

\* generate_content raises; neither tool catches it
ProviderRaise(r) ==
    /\ tpc[r] = "awaiting"
    /\ result' = [result EXCEPT ![r] = Raised(ErrProvider)]
    /\ tpc' = [tpc EXCEPT ![r] = "done"]
    /\ UNCHANGED <<targs, sent, reply, ret>>
    /\ UNCHANGED <<serverVars, configVars>>

\* process_grounding_to_structured_citations(m) called by itself
ProcessGrounding(r, m) ==
    /\ tpc[r] = "idle"
    /\ targs' = [targs EXCEPT ![r] =
                    [tool |-> "process_grounding_to_structured_citations",
                     text |-> "", include_citations |-> FALSE, model |-> UnsetSeq,
                     direct |-> TRUE, grounding_metadata |-> m]]
    /\ LET citations == process_grounding_to_structured_citations(m) IN
        result' = [result EXCEPT ![r] =
                      IF citations.ok
                      THEN [kind |-> "returned", keys |-> {}, text |-> "",
                            web_search_queries |-> <<>>,
                            citations |-> citations.val, err |-> ""]
                      ELSE Raised(citations.err)]
    /\ tpc' = [tpc EXCEPT ![r] = "done"]
    /\ UNCHANGED <<sent, reply, ret>>
    /\ UNCHANGED <<serverVars, configVars>>

\* the caller has the outcome and may call again
ToolDone(r) ==
    /\ tpc[r] = "done"
    /\ tpc' = [tpc EXCEPT ![r] = "idle"]
    /\ targs' = [targs EXCEPT ![r] = NoToolArgs]
    /\ sent' = [sent EXCEPT ![r] = NoRequest]
    /\ reply' = [reply EXCEPT ![r] = NoReply]
    /\ result' = [result EXCEPT ![r] = NoOutcome]
    /\ UNCHANGED ret
    /\ UNCHANGED <<serverVars, configVars>>

NextTools ==
    \/ \E r \in Callers : \E q \in Queries : \E c \in BOOLEAN : \E d \in Dates :
          WebSearch(r, q, c, d)
    \/ \E r \in Callers : \E p \in Prompts : \E m \in ModelArgs : \E d \in BOOLEAN :
          UseGemini(r, p, m, d)
    \/ \E r \in Callers : \E t \in Texts : \E m \in Metadatas : ProviderReply(r, t, m)
    \/ \E r \in Callers : ProviderRaise(r)
    \/ \E r \in Callers : \E m \in Metadatas : ProcessGrounding(r, m)
    \/ \E r \in Callers : ToolDone(r)

SpecTools == InitTools /\ [][NextTools]_vars

TypeOK ==
    /\ started \in {"no", "main", "hosted"}
    /\ transport \in TransportChoices \cup {"none"}
    /\ \A t \in Tasks : pc[t] \in {"idle", "received", "next", "awaiting", "done"}
    /\ arrivals \in 0..MaxArrivals
    /\ instances \in 0..MaxInstances
    /\ \A f \in Fields : env_models[f] \in ModelEnvValues[f] \cup {UnsetSeq}
    /\ cache.set \in BOOLEAN /\ cache.val.id \in 0..MaxInstances
    /\ \A r \in Callers :
          /\ got[r].via \in {"none", "get_config", "ModelConfig"}
          /\ got[r].cfg.id \in 0..MaxInstances
          /\ cpc[r] \in {"idle", "miss", "built"}
          /\ pending[r].id \in 0..MaxInstances
          /\ current[r] \in BOOLEAN

\* ================================================================ claims
\* the middleware has handled the request of task t
GateRan(t) == MiddlewareInstalled /\ ctx[t] = "http" /\ pc[t] \notin {"idle", "received"}

Gate401(detail) == [status |-> 401, src |-> "gate", detail |-> detail]

\* the value get_gemini_client reads as the transport mode
ModeRead == IF env_transport_mode.set THEN env_transport_mode.val ELSE "streamable-http"

\* the header of task t is two whitespace-separated words, the first one
\* "bearer" in any letter case
TwoWordBearer(t) ==
    /\ auth[t].set
    /\ Len(split(auth[t].val)) = 2
    /\ lower(split(auth[t].val)[1]) = <<"b","e","a","r","e","r">>

\* C1: per-request isolation. Behind the middleware, the token in a request's
\* state and the credential every get_gemini_client call of that request
\* resolves are the second word of that request's own Authorization header,
\* whatever other requests are in flight or were served before.
C1_Isolation ==
    \A t \in Tasks :
        (MiddlewareInstalled /\ ctx[t] = "http") =>
            /\ bearer[t].set =>
                  /\ auth[t].set
                  /\ Len(split(auth[t].val)) = 2
                  /\ bearer[t].val = split(auth[t].val)[2]
            /\ client[t].set =>
                  /\ auth[t].set
                  /\ Len(split(auth[t].val)) = 2
                  /\ client[t].val = split(auth[t].val)[2]

\* two requests in flight at once, each holding a handle bound to its own token
C1_Witness ==
    /\ MiddlewareInstalled
    /\ pc["t1"] = "awaiting" /\ pc["t2"] = "awaiting"
    /\ ctx["t1"] = "http" /\ ctx["t2"] = "http"
    /\ client["t1"] = SomeSeq(T_AIa)
    /\ client["t2"] = SomeSeq(T_AIb)

\* C2: a non-root request without an Authorization header is answered by the
\* gate with 401 and detail "Authorization header missing".
C2_MissingHeader ==
    \A t \in Tasks :
        (GateRan(t) /\ path[t] # "/" /\ ~auth[t].set) =>
            /\ pc[t] = "done"
            /\ response[t] = Gate401("Authorization header missing")

C2_Witness ==
    \E t \in Tasks :
        /\ GateRan(t) /\ path[t] = "/mcp" /\ ~auth[t].set
        /\ response[t].status = 401

\* C3 as stated: every non-root request whose header is present but is not
\* two words with the first one "bearer" gets 401 with the malformed detail.
C3_Original ==
    \A t \in Tasks :
        (GateRan(t) /\ path[t] # "/" /\ auth[t].set /\ ~TwoWordBearer(t)) =>
            /\ pc[t] = "done"
            /\ response[t] =
                 Gate401("Invalid Authorization header. Must be 'Bearer <token>'")

\* C3 amended: the same for a header that is present and not the empty
\* string; a header whose value is the empty string gets 401 with the
\* header-missing detail.
C3_Malformed ==
    \A t \in Tasks :
        (GateRan(t) /\ path[t] # "/" /\ auth[t].set /\ ~TwoWordBearer(t)) =>
            /\ pc[t] = "done"
            /\ response[t] =
                 IF auth[t].val # <<>>
                 THEN Gate401("Invalid Authorization header. Must be 'Bearer <token>'")
                 ELSE Gate401("Authorization header missing")

\* a three-word header was answered with the malformed detail
C3_Witness ==
    \E t \in Tasks :
        /\ GateRan(t) /\ path[t] = "/mcp"
        /\ auth[t] = SomeSeq(W_Bearer \o <<" ">> \o T_AIa \o <<" ">> \o T_AIb)
        /\ response[t].detail = "Invalid Authorization header. Must be 'Bearer <token>'"

\* C4 as stated: every non-root request with a two-word bearer header is
\* forwarded whatever the second word is, and the gate's only 401 details are
\* the header-missing and the header-malformed one.
C4_Original ==
    /\ \A t \in Tasks :
        (GateRan(t) /\ path[t] # "/" /\ TwoWordBearer(t)) =>
            /\ nextCalls[t] = 1
            /\ response[t].src # "gate"
    /\ \A t \in Tasks :
        response[t].src = "gate" =>
            response[t].detail \in
                {"Authorization header missing",
                 "Invalid Authorization header. Must be 'Bearer <token>'"}

\* C4 amended: the gate checks the token's prefix. A non-root request with a
\* two-word bearer header is forwarded exactly when the second word starts
\* with "AI", and is otherwise answered 401 with detail "Invalid token. Must
\* be a AI Studio token"; the gate's rejections are the header-missing, the
\* header-malformed and this invalid-token 401.
C4_PrefixChecked ==
    /\ \A t \in Tasks :
        (GateRan(t) /\ path[t] # "/" /\ TwoWordBearer(t)) =>
            LET tok == split(auth[t].val)[2] IN
            IF Len(tok) >= 2 /\ tok[1] = "A" /\ tok[2] = "I"
            THEN /\ nextCalls[t] = 1
                 /\ response[t].src # "gate"
            ELSE /\ nextCalls[t] = 0
                 /\ pc[t] = "done"
                 /\ response[t] = Gate401("Invalid token. Must be a AI Studio token")
    /\ \A t \in Tasks :
        response[t].src = "gate" =>
            /\ response[t].status = 401
            /\ response[t].detail \in
                {"Authorization header missing",
                 "Invalid Authorization header. Must be 'Bearer <token>'",
                 "Invalid token. Must be a AI Studio token"}

\* one request forwarded with an AI token, one rejected for its token
C4_Witness ==
    /\ GateRan("t1") /\ path["t1"] = "/mcp"
    /\ auth["t1"] = SomeSeq(W_Bearer \o <<" ">> \o T_AIa)
    /\ nextCalls["t1"] = 1
    /\ GateRan("t2") /\ path["t2"] = "/mcp"
    /\ auth["t2"] = SomeSeq(W_Bearer \o <<" ">> \o T_aIa)
    /\ response["t2"].status = 401

\* C5 as stated: for a header "Bearer <t>" on a non-root request, the token
\* in the request's state, and the credential resolved downstream, is t.
C5_Original ==
    \A t \in Tasks : \A s \in {W_Bearer, W_BEARER} : \A tok \in Tokens :
        (GateRan(t) /\ path[t] # "/" /\ auth[t] = SomeSeq(s \o <<" ">> \o tok)) =>
            /\ bearer[t] = SomeSeq(tok)
            /\ resolveCalls[t] > 0 => client[t] = SomeSeq(tok)

\* C5 amended: for a header "Bearer <t>" whose t starts with "AI", the token
\* in the request's state, and the credential resolved downstream in that
\* request, is t exactly: no trimming or transformation beyond the
\* whitespace split.  (Any other t is rejected by the gate and stored nowhere.)
C5_TokenVerbatim ==
    \A t \in Tasks : \A s \in {W_Bearer, W_BEARER} : \A tok \in Tokens :
        (/\ GateRan(t) /\ path[t] # "/"
         /\ auth[t] = SomeSeq(s \o <<" ">> \o tok)
         /\ tok[1] = "A" /\ tok[2] = "I") =>
            /\ bearer[t] = SomeSeq(tok)
            /\ resolveCalls[t] > 0 => client[t] = SomeSeq(tok)

\* "Bearer AIa" was resolved downstream to a handle bound to "AIa"
C5_Witness ==
    \E t \in Tasks :
        /\ GateRan(t) /\ path[t] = "/mcp"
        /\ auth[t] = SomeSeq(<<"B","e","a","r","e","r"," ","A","I","a">>)
        /\ resolveCalls[t] = 1
        /\ client[t] = SomeSeq(<<"A","I","a">>)

\* C6: a request to "/" bypasses the gate: it is forwarded to the next
\* handler, is never answered by the gate, and no token is stored, whether
\* its Authorization header is absent, malformed or well-formed.
C6_RootBypass ==
    \A t \in Tasks :
        (GateRan(t) /\ path[t] = "/") =>
            /\ nextCalls[t] = 1
            /\ response[t].src # "gate"
            /\ response[t].status # 401
            /\ ~bearer[t].set

\* two root requests served the landing page, one with a malformed header,
\* one without a header
C6_Witness ==
    /\ GateRan("t1") /\ path["t1"] = "/"
    /\ auth["t1"] = SomeSeq(W_Basic \o <<" ">> \o T_abc123)
    /\ response["t1"].src = "landing"
    /\ GateRan("t2") /\ path["t2"] = "/"
    /\ ~auth["t2"].set
    /\ response["t2"].src = "landing"

\* C7: ordering at the gate. A non-root request is in the next handler (or
\* in tool code) only with the bearer token already stored in its state, and
\* a request the gate answered with 401 was never handed to the next handler
\* nor to any tool code.
C7_StoreBeforeNext ==
    \A t \in Tasks :
        (MiddlewareInstalled /\ ctx[t] = "http") =>
            /\ (path[t] # "/" /\ (nextCalls[t] > 0 \/ resolveCalls[t] > 0
                                   \/ pc[t] \in {"next", "awaiting"})) =>
                  (bearer[t].set /\ bearer[t].val # <<>>)
            /\ response[t].src = "gate" =>
                  /\ nextCalls[t] = 0
                  /\ resolveCalls[t] = 0
                  /\ providerCalls[t] = 0
                  /\ tool[t] = "none"

\* one request waits in the next handler with its token stored, another was
\* rejected
C7_Witness ==
    /\ MiddlewareInstalled
    /\ pc["t1"] = "next" /\ path["t1"] = "/mcp" /\ bearer["t1"].set
    /\ nextCalls["t1"] = 1
    /\ pc["t2"] = "done" /\ response["t2"].src = "gate"

\* C8: in stdio mode get_gemini_client fails with the stdio authentication
\* error when GEMINI_API_KEY is unset or empty, and otherwise returns a
\* handle bound to exactly the value of GEMINI_API_KEY.
C8_StdioKey ==
    \A t \in Tasks :
        (resolveCalls[t] > 0 /\ ModeRead = "stdio") =>
            IF ~env_api_key.set \/ env_api_key.val = <<>>
            THEN /\ ~client[t].set
                 /\ providerCalls[t] = 0
                 /\ response[t].src = "tool_error"
                 /\ response[t].detail =
                      "Authentication failed. GEMINI_API_KEY not found for stdio mode."
            ELSE /\ client[t] = SomeSeq(env_api_key.val)
                 /\ providerCalls[t] = 1

\* main --transport stdio with GEMINI_API_KEY=XYZ: the handle is bound to XYZ
C8_Witness ==
    /\ started = "main" /\ transport = "stdio"
    /\ env_api_key = SomeSeq(<<"X","Y","Z">>)
    /\ \E t \in Tasks : resolveCalls[t] = 1 /\ client[t] = SomeSeq(<<"X","Y","Z">>)

\* C9: in streamable-http mode a call outside any HTTP request fails with the
\* "must be called via an HTTP request" error, a call in a request without a
\* stashed token fails with the "Bearer token not found" error, the two
\* errors differ, and neither call returns a handle.
C9_HttpErrorsDistinct ==
    \A t \in Tasks :
        (resolveCalls[t] > 0 /\ ModeRead = "streamable-http") =>
            /\ ctx[t] = "plain" =>
                  /\ ~client[t].set
                  /\ providerCalls[t] = 0
                  /\ response[t].src = "tool_error"
                  /\ response[t].detail =
                       "Tool must be called via an HTTP request for streamable-http mode."
            /\ (ctx[t] = "http" /\ ~bearer[t].set) =>
                  /\ ~client[t].set
                  /\ providerCalls[t] = 0
                  /\ response[t].src = "tool_error"
                  /\ response[t].detail =
                       "Authentication failed in streamable-http mode. Bearer token not found."

\* both failures side by side, with different messages
C9_Witness ==
    /\ ModeRead = "streamable-http"
    /\ ctx["t1"] = "plain" /\ resolveCalls["t1"] = 1
    /\ ctx["t2"] = "http" /\ resolveCalls["t2"] = 1 /\ ~bearer["t2"].set
    /\ response["t1"].src = "tool_error" /\ response["t2"].src = "tool_error"
    /\ response["t1"].detail # response["t2"].detail

\* C10: with a transport mode value other than "stdio" and "streamable-http",
\* get_gemini_client fails with the invalid-transport-mode error naming the
\* value and returns no handle, whatever GEMINI_API_KEY and the request are.
C10_InvalidMode ==
    \A t \in Tasks :
        (resolveCalls[t] > 0 /\ ModeRead \notin {"stdio", "streamable-http"}) =>
            /\ ~client[t].set
            /\ providerCalls[t] = 0
            /\ response[t].src = "tool_error"
            /\ response[t].detail = "Invalid MCP_TRANSPORT_MODE: " \o ModeRead

\* mode "sse" with GEMINI_API_KEY set: a call inside a request and a call
\* outside one both fail
C10_Witness ==
    /\ env_transport_mode = SomeStr("sse")
    /\ env_api_key = SomeSeq(<<"X","Y","Z">>)
    /\ ctx["t1"] = "http" /\ resolveCalls["t1"] = 1 /\ pc["t1"] = "done"
    /\ ctx["t2"] = "plain" /\ resolveCalls["t2"] = 1 /\ pc["t2"] = "done"

\* C11: credential resolution failures are not retried. When a tool's
\* invocation ended with a get_gemini_client error, the resolver was called
\* exactly once in it, the tool's caller got that error, and the tool made no
\* model-provider call and holds no handle.
C11_NoRetry ==
    \A t \in Tasks :
        (/\ response[t].src = "tool_error"
         /\ response[t].detail # "provider call failed") =>
            /\ tool[t] \in {"web_search", "use_gemini"}
            /\ resolveCalls[t] = 1
            /\ providerCalls[t] = 0
            /\ ~client[t].set
            /\ pc[t] = "done"
            /\ response[t].detail \in
                 {"Authentication failed. GEMINI_API_KEY not found for stdio mode.",
                  "Tool must be called via an HTTP request for streamable-http mode.",
                  "Authentication failed in streamable-http mode. Bearer token not found.",
                  "Invalid MCP_TRANSPORT_MODE: " \o transport_mode[t]}

\* web_search failed in one task and use_gemini in the other, on the resolver
C11_Witness ==
    /\ tool["t1"] = "web_search" /\ tool["t2"] = "use_gemini"
    /\ \A t \in Tasks :
        /\ response[t].src = "tool_error"
        /\ response[t].detail =
             "Authentication failed. GEMINI_API_KEY not found for stdio mode."
        /\ resolveCalls[t] = 1

\* the credential a get_gemini_client call of task t resolves in this state
CredentialNow(t) ==
    IF ModeRead = "stdio" THEN env_api_key.val ELSE bearer[t].val

\* C12: the handle is never cached. Every step in which a task's
\* get_gemini_client call succeeds gives that task a handle bound to the
\* credential resolved in that very call (the current GEMINI_API_KEY in stdio
\* mode, the request's own token in streamable-http mode), whatever handles
\* were built before for other credentials; and a task's handle is set by
\* its own call only.
C12_FreshHandle ==
    [][\A t \in Tasks :
          /\ (resolveCalls'[t] > resolveCalls[t] /\ client'[t].set) =>
                client'[t].val = CredentialNow(t)
          /\ client'[t] # client[t] =>
                (resolveCalls'[t] > resolveCalls[t] \/ pc'[t] = "idle")]_vars

\* stdio mode: a handle built for XYZ is still in use, the key was changed to
\* ABC, and the later call holds a handle bound to ABC
C12_Witness ==
    /\ ModeRead = "stdio"
    /\ env_api_key = SomeSeq(<<"A","B","C">>)
    /\ client["t1"] = SomeSeq(<<"X","Y","Z">>)
    /\ client["t2"] = SomeSeq(<<"A","B","C">>)

\* C13: the transport mode flag is written once, by main, before any request
\* or tool call is served, and never again; in a process started by main every
\* get_gemini_client call reads the value of the --transport argument.
C13_ModeSetOnce ==
    /\ [](started = "main" =>
            /\ env_transport_mode = SomeStr(transport)
            /\ \A t \in Tasks :
                 transport_mode[t] # "not read" => transport_mode[t] = transport)
    /\ [][env_transport_mode' # env_transport_mode =>
            /\ started = "no" /\ started' = "main"
            /\ arrivals = 0
            /\ \A t \in Tasks : pc[t] = "idle"]_vars

\* main --transport stdio in a process that inherited another flag value; two
\* calls have read "stdio"
C13_Witness ==
    /\ started = "main" /\ transport = "stdio"
    /\ \A t \in Tasks : transport_mode[t] = "stdio" /\ resolveCalls[t] = 1

\* ------------------------------------------------- claims on config.py
\* v starts with the seven characters gemini-
HasGeminiPrefix(v) == Len(v) >= 7 /\ SubSeq(v, 1, 7) = <<"g","e","m","i","n","i","-">>

AllPrefixed(fields) == \A f \in Fields : HasGeminiPrefix(fields[f])

\* the default triple, as the specification names it
DefaultTriple ==
    [web_search_model |-> <<"g","e","m","i","n","i","-","f","l","a","s","h","-","l","a","t","e","s","t">>,
     default_model |-> <<"g","e","m","i","n","i","-","f","l","a","s","h","-","l","i","t","e","-","l","a","t","e","s","t">>,
     advanced_model |-> <<"g","e","m","i","n","i","-","2",".","5","-","p","r","o">>]

\* C14: construction of a ModelConfig is atomic. A ModelConfig(...) call
\* yields an instance exactly when every argument it was given starts with
\* "gemini-"; the instance then has all three fields starting with "gemini-";
\* a call with one argument of another shape ("", "gemini",
\* "Gemini-flash-latest") fails as a whole and leaves no instance, also when
\* the other arguments are valid.
C14_Atomic ==
    \A r \in Callers :
        got[r].via = "ModelConfig" =>
            LET bad == \E f \in Fields :
                          args[r][f].set /\ ~HasGeminiPrefix(args[r][f].val) IN
            /\ got[r].ok <=> ~bad
            /\ got[r].ok => /\ got[r].cfg.id > 0
                            /\ AllPrefixed(got[r].cfg.fields)
            /\ ~got[r].ok => got[r].cfg = NoInstance

\* one caller's construction failed on "gemini" for default_model although its
\* two other arguments were valid, the other caller holds an instance
C14_Witness ==
    /\ got["r1"].via = "ModelConfig"
    /\ args["r1"].web_search_model = SomeSeq(M_25flash)
    /\ args["r1"].default_model = SomeSeq(M_gemini)
    /\ args["r1"].advanced_model = SomeSeq(M_25flashlite)
    /\ ~got["r1"].ok
    /\ got["r2"].via = "ModelConfig"
    /\ got["r2"].ok
    /\ args["r2"].web_search_model = SomeSeq(M_25flash)

\* every model variable that is set holds a value starting with "gemini-"
EnvValid(env) == \A f \in Fields : env[f].set => HasGeminiPrefix(env[f].val)

\* what a load from environment env has to give, field by field
ExpectedFields(env) ==
    IF EnvValid(env)
    THEN [f \in Fields |-> IF env[f].set THEN env[f].val ELSE DefaultTriple[f]]
    ELSE DefaultTriple

\* the cached instance was built from the environment as it is now
LoadedFromCurrentEnv == cache.set /\ ~envChanged

\* C15: all-or-nothing fallback. When at least one of the three model
\* variables holds a value that does not start with "gemini-", the instance
\* get_config builds from that environment is the full default triple: a
\* valid override of another field is discarded too.
C15_AllOrNothing ==
    (LoadedFromCurrentEnv /\ ~EnvValid(env_models)) =>
        /\ cache.val.fields = DefaultTriple
        /\ \A r \in Callers :
              current[r] => got[r].ok /\ got[r].cfg.fields = DefaultTriple

\* GEMINI_WEB_SEARCH_MODEL is invalid, GEMINI_DEFAULT_MODEL is a valid
\* override, and the caller was given the three defaults
C15_Witness ==
    /\ LoadedFromCurrentEnv
    /\ env_models.web_search_model = SomeSeq(M_CapitalG)
    /\ env_models.default_model = SomeSeq(M_25pro)
    /\ current["r1"]
    /\ got["r1"].cfg.fields = DefaultTriple

\* C16: when every model variable that is set starts with "gemini-", the
\* instance get_config builds from that environment has, for each field, the
\* value of the variable if it is set and the built-in default if it is not,
\* for every subset of variables that are set.
C16_Overrides ==
    (LoadedFromCurrentEnv /\ EnvValid(env_models)) =>
        \A r \in Callers : \A f \in Fields :
            current[r] =>
                /\ got[r].ok
                /\ got[r].cfg.fields[f] =
                      IF env_models[f].set THEN env_models[f].val ELSE DefaultTriple[f]

\* two variables set and valid, one unset: two overrides and one default
C16_Witness ==
    /\ LoadedFromCurrentEnv
    /\ env_models.web_search_model = SomeSeq(M_25flash)
    /\ ~env_models.default_model.set
    /\ env_models.advanced_model = SomeSeq(M_25flashlite)
    /\ current["r2"]
    /\ got["r2"].cfg.fields.web_search_model = M_25flash
    /\ got["r2"].cfg.fields.default_model = DefaultTriple.default_model
    /\ got["r2"].cfg.fields.advanced_model = M_25flashlite

\* C17: between two clears every get_config call returns the one cached
\* instance, the one the first call after the clear built, also when model
\* variables changed in between; the cached instance is replaced only after
\* a clear.
C17_CachedUntilCleared ==
    /\ [](\A r \in Callers :
            current[r] =>
                /\ cache.set
                /\ got[r].ok
                /\ got[r].cfg = cache.val
                /\ \A q \in Callers : current[q] => got[q].cfg = got[r].cfg)
    /\ [][(cache.set /\ cache'.set) => cache' = cache]_vars

\* both callers hold the same instance although the environment now names
\* another web-search model than the instance has
C17_Witness ==
    /\ current["r1"] /\ current["r2"]
    /\ got["r1"].cfg = got["r2"].cfg
    /\ envChanged
    /\ EnvValid(env_models)
    /\ env_models.web_search_model.set
    /\ got["r1"].cfg.fields.web_search_model # env_models.web_search_model.val

C19_ReloadReadsEnv ==
    [][\A r \in Callers :
          (/\ preClear'.set
           /\ \A q \in Callers : ~current[q]
           /\ current'[r]) =>
              /\ got'[r].ok
              /\ got'[r].cfg.fields = ExpectedFields(env_models)]_vars

\* a valid override was cached, the variable was then changed to an invalid
\* value, and the call after the clear returned the default triple
C19_Witness ==
    /\ preClear.set
    /\ preClear.val.fields.web_search_model = M_25flash
    /\ env_models.web_search_model = SomeSeq(M_CapitalG)
    /\ LoadedFromCurrentEnv
    /\ current["r1"]
    /\ got["r1"].cfg = cache.val
    /\ cache.val.id # preClear.val.id
    /\ cache.val.fields = DefaultTriple

\* C20: a clear racing with get_config calls is safe. In every interleaving
\* of the steps of get_config calls, clears and environment changes, a
\* reader gets no error, and the instance it gets is either the one cached
\* when it looked or the one its own call built, complete and with the
\* prefix on all three fields.
C20_RaceSafe ==
    /\ [](\A r \in Callers :
            got[r].via = "get_config" =>
                /\ got[r].ok
                /\ got[r].cfg.id > 0
                /\ AllPrefixed(got[r].cfg.fields))
    /\ [][\A r \in Callers :
            got'[r] # got[r] =>
                \/ cache.set /\ cpc[r] = "idle" /\ got'[r].cfg = cache.val
                \/ cpc[r] = "built" /\ got'[r].cfg = pending[r]]_vars

\* r1 was given the first instance, the cache was cleared after that, and r2,
\* in the middle of its call, has built the second one
C20_Witness ==
    /\ got["r1"].via = "get_config" /\ got["r1"].ok
    /\ cpc["r1"] = "idle"
    /\ ~cache.set
    /\ cpc["r2"] = "built"
    /\ pending["r2"].id # got["r1"].cfg.id
    /\ AllPrefixed(pending["r2"].fields)

\* what accessor a has to return under environment env
ExpectedReturn(a, env) ==
    CASE a = "get_model_for_web_search" -> ExpectedFields(env).web_search_model
      [] a = "get_default_model" -> ExpectedFields(env).default_model
      [] a = "get_advanced_model" -> ExpectedFields(env).advanced_model
      [] OTHER -> <<ExpectedFields(env).web_search_model,
                    ExpectedFields(env).default_model,
                    ExpectedFields(env).advanced_model>>

\* C21: validation failures of the configuration never reach a caller. For
\* every combination of values of the three model variables, get_config and
\* the four accessors return a value, the one the environment stands for
\* (defaults when a variable is invalid), and never raise.
C21_NeverRaises ==
    \A r \in Callers :
        /\ got[r].via = "get_config" => got[r].ok /\ got[r].cfg.id > 0
        /\ ret[r].via # "none" =>
              /\ ret[r].ok
              /\ ret[r].val = ExpectedReturn(ret[r].via, env_models)

\* two of the three variables are invalid; get_all_models returned the three
\* defaults to one caller and get_default_model the default to the other
C21_Witness ==
    /\ env_models.web_search_model = SomeSeq(M_CapitalG)
    /\ env_models.default_model = SomeSeq(<<>>)
    /\ ret["r1"].via = "get_all_models"
    /\ ret["r1"].ok
    /\ ret["r1"].val = <<DefaultTriple.web_search_model, DefaultTriple.default_model,
                         DefaultTriple.advanced_model>>
    /\ ret["r2"].via = "get_default_model"
    /\ ret["r2"].val = DefaultTriple.default_model

\* ------------------------------------------------- claims on tools.py
\* the caller's tool call has sent its generate_content request
Requested(r, name) == targs[r].tool = name /\ sent[r].n > 0

\* the caller's tool call has run to its end on a response of the provider
Answered(r, name) == targs[r].tool = name /\ tpc[r] = "done" /\ reply[r].given

\* C22: web_search calls the provider with the configured web-search model,
\* the GEMINI_WEB_SEARCH_MODEL override when the environment is valid and the
\* default "gemini-flash-latest" otherwise.
C22_WebSearchModel ==
    \A r \in Callers :
        Requested(r, "web_search") =>
            sent[r].model = ExpectedFields(env_models).web_search_model

\* C23: use_gemini called without a model argument calls the provider with
\* the configured default model ("gemini-flash-lite-latest" without an
\* override) and with the prompt unchanged as contents.
C23_DefaultModel ==
    \A r \in Callers :
        (Requested(r, "use_gemini") /\ ~targs[r].model.set) =>
            /\ sent[r].model = ExpectedFields(env_models).default_model
            /\ sent[r].contents = <<targs[r].text>>

\* C24: backward-compatible selection in use_gemini. A call with model
\* "gemini-flash-latest" calls the provider with the configured default
\* model, a call with model "gemini-2.5-pro" with the configured advanced
\* model.
C24_BackwardCompatible ==
    \A r \in Callers :
        (Requested(r, "use_gemini") /\ targs[r].model.set) =>
            /\ targs[r].model.val = <<"g","e","m","i","n","i","-","f","l","a","s","h","-","l","a","t","e","s","t">> =>
                  sent[r].model = ExpectedFields(env_models).default_model
            /\ targs[r].model.val = <<"g","e","m","i","n","i","-","2",".","5","-","p","r","o">> =>
                  sent[r].model = ExpectedFields(env_models).advanced_model

\* the queries a response's grounding metadata lists
QueriesOf(m) ==
    IF ~m.none /\ m.web_search_queries.set THEN m.web_search_queries.val ELSE <<>>

\* the metadata has supports to turn into citations
HasSupports(m) == ~m.none /\ m.has_supports /\ m.grounding_supports.set

\* the citations of a response's grounding metadata: one entry per support,
\* none when there is nothing to process
CitationsOf(m) ==
    IF HasSupports(m) THEN process_grounding_to_structured_citations(m).val ELSE <<>>

\* C25: web_search returns a record with only the key text when
\* include_citations is false and with exactly text, web_search_queries and
\* citations when it is true; web_search_queries are the queries of the
\* provider's grounding metadata, citations what the metadata's supports
\* give, text the provider's response text in both cases.
C25_ResultShape ==
    \A r \in Callers :
        Answered(r, "web_search") =>
            /\ result[r].kind = "returned"
            /\ result[r].text = reply[r].text
            /\ ~targs[r].include_citations => result[r].keys = {"text"}
            /\ targs[r].include_citations =>
                  /\ result[r].keys = {"text", "web_search_queries", "citations"}
                  /\ result[r].web_search_queries = QueriesOf(reply[r].grounding_metadata)
                  /\ result[r].citations = CitationsOf(reply[r].grounding_metadata)

\* C26: process_grounding_to_structured_citations returns an empty list,
\* without raising, when its argument is None, when the metadata has no
\* attribute grounding_supports, and when grounding_supports is empty.
C26_EmptyOnNothing ==
    \A r \in Callers :
        (/\ targs[r].tool = "process_grounding_to_structured_citations"
         /\ tpc[r] = "done"
         /\ \/ targs[r].grounding_metadata.none
            \/ ~targs[r].grounding_metadata.has_supports
            \/ targs[r].grounding_metadata.grounding_supports = SomeSeq(<<>>)) =>
            /\ result[r].kind = "returned"
            /\ result[r].citations = <<>>

\* C27: when the first candidate of the response has no grounding metadata
\* (None), web_search with include_citations true returns citations = [] and
\* web_search_queries = [] with the response text, after exactly one provider
\* call, and does not raise.
C27_NoneMetadata ==
    \A r \in Callers :
        (/\ Answered(r, "web_search")
         /\ targs[r].include_citations
         /\ reply[r].grounding_metadata.none) =>
            /\ result[r].kind = "returned"
            /\ result[r].keys = {"text", "web_search_queries", "citations"}
            /\ result[r].citations = <<>>
            /\ result[r].web_search_queries = <<>>
            /\ result[r].text = reply[r].text
            /\ sent[r].n = 1

\* a web_search call with citations asked for has returned on a response
\* without grounding metadata
C27_Witness ==
    /\ Answered("r1", "web_search")
    /\ targs["r1"].include_citations
    /\ reply["r1"].grounding_metadata = NoMetadata
    /\ result["r1"].kind = "returned"
    /\ result["r1"].text = "Test search result"

\* ------------------------------------- further claims on the resolver
\* what the get_gemini_client call of task t came to: the handle's key, or
\* the error the tool call ended with
Outcome(t) ==
    IF client[t].set THEN Client(client[t].val) ELSE Raise(response[t].detail)

\* C28: with MCP_TRANSPORT_MODE not set at all, get_gemini_client behaves as
\* in streamable-http mode: outside a request it fails with the HTTP-request
\* error, in a request without a stashed token with the token error, a handle
\* is bound to the request's token only, and neither the stdio branch (the
\* environment key, the stdio error) nor the invalid-mode error is reached.
C28_UnsetIsHttp ==
    \A t \in Tasks :
        (resolveCalls[t] > 0 /\ ~env_transport_mode.set) =>
            /\ transport_mode[t] = "streamable-http"
            /\ ctx[t] = "plain" =>
                  Outcome(t) = Raise("Tool must be called via an HTTP request for streamable-http mode.")
            /\ (ctx[t] = "http" /\ (~bearer[t].set \/ bearer[t].val = <<>>)) =>
                  Outcome(t) = Raise("Authentication failed in streamable-http mode. Bearer token not found.")
            /\ client[t].set =>
                  ctx[t] = "http" /\ bearer[t].set /\ client[t].val = bearer[t].val
            /\ ~client[t].set => providerCalls[t] = 0

\* the flag is unset and GEMINI_API_KEY is set: a call outside a request and
\* a call in a request without token have both failed, neither on the key
C28_Witness ==
    /\ ~env_transport_mode.set
    /\ env_api_key = SomeSeq(K_XYZ)
    /\ ctx["t1"] = "plain" /\ resolveCalls["t1"] = 1 /\ ~client["t1"].set
    /\ ctx["t2"] = "http" /\ resolveCalls["t2"] = 1 /\ ~client["t2"].set
    /\ response["t1"].src = "tool_error" /\ response["t2"].src = "tool_error"

\* C29: no cross-mode credential fallback. In streamable-http mode the
\* outcome of a get_gemini_client call is the one it would be under every
\* other value of GEMINI_API_KEY, so a request without a stashed token fails
\* also when the key is set; in stdio mode the outcome is the one it would be
\* with any request context and any stashed token.
C29_NoCrossModeFallback ==
    \A t \in Tasks :
        resolveCalls[t] > 0 =>
            /\ ModeRead = "streamable-http" =>
                  /\ \A k \in EnvKeys \cup {SomeSeq(K_ABC)} :
                        Outcome(t) = get_gemini_client(env_transport_mode, k,
                                                       ctx[t] = "http", bearer[t])
                  /\ (ctx[t] = "http" /\ ~bearer[t].set) => ~client[t].set
            /\ ModeRead = "stdio" =>
                  \A inRequest \in BOOLEAN :
                      \A tok \in {UnsetSeq} \cup {SomeSeq(k) : k \in Tokens} :
                          Outcome(t) = get_gemini_client(env_transport_mode, env_api_key,
                                                         inRequest, tok)

\* streamable-http mode with GEMINI_API_KEY set: the call of a request
\* without a stashed token has failed with the token error
C29_Witness ==
    /\ ModeRead = "streamable-http"
    /\ env_api_key = SomeSeq(K_XYZ)
    /\ ctx["t1"] = "http" /\ resolveCalls["t1"] = 1
    /\ ~bearer["t1"].set
    /\ ~client["t1"].set
    /\ response["t1"] = ToolError("Authentication failed in streamable-http mode. Bearer token not found.")

\* ------------------------------------------ further claims on the gate
\* C30: every HTTP request that enters the gate eventually gets exactly one
\* response, provided the next handler returns: one of the gate's 401
\* responses, the next handler not invoked, or the response of the next
\* handler, which is invoked at most once per request.
C30_OneResponse ==
    /\ \A t \in Tasks :
          (MiddlewareInstalled /\ ctx[t] = "http" /\ pc[t] = "received") ~> (pc[t] = "done")
    /\ [](\A t \in Tasks :
            (MiddlewareInstalled /\ ctx[t] = "http") =>
                /\ nextCalls[t] <= 1
                /\ pc[t] = "done" =>
                      \/ /\ response[t].src = "gate"
                         /\ response[t].status = 401
                         /\ nextCalls[t] = 0
                      \/ /\ response[t].src \in {"landing", "tool_error", "tool_result"}
                         /\ nextCalls[t] = 1
                /\ pc[t] # "done" => response[t] = NoResponse)
    /\ [][\A t \in Tasks :
            (response[t] # NoResponse /\ response'[t] # response[t]) =>
                pc'[t] = "idle"]_vars

\* one request was answered by the gate without the next handler, another by
\* the next handler invoked once
C30_Witness ==
    /\ MiddlewareInstalled
    /\ ctx["t1"] = "http" /\ pc["t1"] = "done"
    /\ response["t1"].src = "gate" /\ nextCalls["t1"] = 0
    /\ ctx["t2"] = "http" /\ pc["t2"] = "done"
    /\ response["t2"].src = "tool_result" /\ nextCalls["t2"] = 1

====
